---- MODULE Spec2Model ----
(***************************************************************************)
(* Model of src/app.py: a batch converter that, for every dataset, reads   *)
(* schemas.json, resolves the dataset's column names, globs the dataset's  *)
(* part-* files, parses each of them and writes one JSON-lines file.       *)
(*                                                                         *)
(* File names are sequences of characters, so that the glob prefix test,   *)
(* os.path.basename and os.path.splitext are computed and not assumed.     *)
(* A path is a record [dir, file]: dir is the sequence of directory        *)
(* components, file the file name.  The logger is a bag of log records     *)
(* (the records of the current run, without their order).                  *)
(***************************************************************************)
EXTENDS Integers, Sequences, FiniteSets, Bags, TLC

\* ------------------------------------------------------------------ bounds
MaxFiles == 3
MaxCols == 2
MaxRuns == 2

\* ------------------------------------------------------- names and paths
SrcRoot == "SRC_BASE_DIR"
TgtRoot == "TGT_BASE_DIR"
Cwd == "."
\* lines 29-30: the directory logging_decorator creates when the module is loaded
LogDir == <<Cwd, "logs">>

Datasets == {"orders", "users"}

PartPrefix == <<"p", "a", "r", "t", "-">>
JsonExt == <<".", "j", "s", "o", "n">>

Part0 == PartPrefix \o <<"0">>
Part0Csv == PartPrefix \o <<"0", ".", "c", "s", "v">>
Part1 == PartPrefix \o <<"1">>
DataCsv == <<"d", "a", "t", "a", ".", "c", "s", "v">>

\* The file names a dataset directory may hold in the model.
NamesOf(d) == IF d = "orders" THEN {Part0, Part0Csv, Part1, DataCsv} ELSE {Part0, Part1}

NoPath == [dir |-> <<>>, file |-> <<>>]
NoFrame == [src |-> NoPath, cols |-> <<>>]
NoExc == [type |-> "", at |-> ""]
EmptyDict == [d \in {} |-> <<>>]
NoFiles == [p \in {} |-> NoFrame]

\* ------------------------------------------------------------- the schema
ColNames == {"id", "name"}
ColPositions == {0, 1}
Descriptors ==
    [column_name : ColNames, column_position : ColPositions]
        \cup [column_name : {"id"}] \cup [column_position : {0}]

RECURSIVE SeqsUpTo(_, _)
SeqsUpTo(S, n) ==
    IF n = 0 THEN {<<>>}
    ELSE LET shorter == SeqsUpTo(S, n - 1)
         IN  shorter \cup {Append(s, x) : s \in {t \in shorter : Len(t) = n - 1}, x \in S}

GoodCols ==
    << [column_name |-> "name", column_position |-> 1],
       [column_name |-> "id", column_position |-> 0] >>

\* ------------------------------------------------------------------ state
VARIABLES
    env,          \* which of SRC_BASE_DIR / TGT_BASE_DIR are set
    argv,         \* the -ds_name argument: <<>> when not given
    srcFS,        \* dataset directory -> set of file names under the source root
    schemaFile,   \* "absent", "malformed" or "ok": schemas.json under the source root
    schemas,      \* the parsed content of schemas.json when it is "ok"
    unparsable,   \* the source files pandas cannot parse
    pc,           \* position of the run
    ds_names,     \* main: the list the for loop iterates
    dsIdx,        \* main: index of the dataset being converted
    schema,       \* convert_file: the loaded schema
    col_name,     \* convert_file: the resolved column names
    csv_files,    \* process_files: the glob result being yielded
    fileIdx,      \* process_files: index of the file that was yielded last
    df,           \* convert_file: the frame read from the current file
    raised,       \* the exception in flight (or that ended the run)
    log,          \* the logger of logging_decorator: bag of the records of this run
    rootLog,      \* the root logger: bag of the records of this run
    rootHandler,  \* whether logging.basicConfig has given the root logger a handler
    console,      \* the lines printed on stderr, each with the handler that printed it
    out,          \* the files written by df.to_json: path -> content
    dirs,         \* directories created by os.makedirs (logs and the target directories)
    run,          \* number of the run of the program
    prevOut       \* the written files when this run started

inputs == <<env, argv, srcFS, schemaFile, schemas, unparsable>>
locals == <<ds_names, dsIdx, schema, col_name, csv_files, fileIdx, df>>
vars == <<env, argv, srcFS, schemaFile, schemas, unparsable, pc, ds_names, dsIdx,
          schema, col_name, csv_files, fileIdx, df, raised, log, rootLog, rootHandler,
          console, out, dirs, run, prevOut>>

\* --------------------------------------------------------------- helpers
RECURSIVE Orderings(_)
Orderings(S) ==
    IF S = {} THEN {<<>>}
    ELSE UNION {{<<x>> \o t : t \in Orderings(S \ {x})} : x \in S}

\* fnmatch of a file name against the pattern "part-*"
MatchesPart(n) ==
    /\ Len(n) >= Len(PartPrefix)
    /\ SubSeq(n, 1, Len(PartPrefix)) = PartPrefix

\* glob.glob(f"{src_base_dir}/{table}/part-*"): the matching paths, as a set
GlobDataset(table) ==
    IF table \in DOMAIN srcFS
    THEN {[dir |-> <<SrcRoot, table>>, file |-> n] : n \in {m \in srcFS[table] : MatchesPart(m)}}
    ELSE {}

\* glob.glob(f"{src_base_dir}/*/part-*"): directory by directory
RECURSIVE GlobTree(_)
GlobTree(dseq) ==
    IF dseq = <<>> THEN {<<>>}
    ELSE {h \o t : h \in Orderings(GlobDataset(Head(dseq))), t \in GlobTree(Tail(dseq))}

GlobAll == UNION {GlobTree(dord) : dord \in Orderings(DOMAIN srcFS)}

\* os.path.basename(os.path.split(ds_dir)[0]) for every scanned path
DirNames(paths) == [i \in 1..Len(paths) |-> paths[i].dir[Len(paths[i].dir)]]

Basename(path) == path.file

LastDot(n) ==
    LET dots == {i \in 1..Len(n) : n[i] = "."}
    IN  IF dots = {} THEN 0 ELSE CHOOSE i \in dots : \A j \in dots : j <= i

\* os.path.splitext(n)[0]: a leading run of dots is not an extension
SplitextRoot(n) ==
    LET d == LastDot(n)
    IN  IF d > 0 /\ (\E k \in 1..(d - 1) : n[k] # ".") THEN SubSeq(n, 1, d - 1) ELSE n

JsonFileName(csv_file_path) == SplitextRoot(Basename(csv_file_path)) \o JsonExt

L(lvl, msg, ds, file) == [lvl |-> lvl, msg |-> msg, ds |-> ds, file |-> file]
LogAdd(l, r) == l (+) SetToBag({r})
Count(l, msgs) ==
    LET S == {r \in BagToSet(l) : r.msg \in msgs}
    IN  BagCardinality([r \in S |-> l[r]])

\* The lines a handler prints for a bag of records.
Lines(handler, records) ==
    [x \in {[handler |-> handler, rec |-> r] : r \in BagToSet(records)} |-> records[x.rec]]

\* What follows from the records a step has put on the decorator's logger: its
\* console handler prints each of them, and each propagates to the root
\* logger, which prints it again once it has a handler.  The root logger
\* itself is not used by the step.
LoggerStep ==
    /\ console' = console (+) Lines("logger", log' (-) log)
                       (+) (IF rootHandler THEN Lines("root", log' (-) log) ELSE EmptyBag)
    /\ UNCHANGED <<rootLog, rootHandler>>

CurDs == ds_names[dsIdx]
CurFile == csv_files[fileIdx]

\* ------------------------------------------------------------------- Init
AllNames == UNION {NamesOf(d) : d \in Datasets}

\* The files of a source tree, as <<dataset, name>> pairs.
FilesOf(fs) == {e \in (DOMAIN fs) \X AllNames : e[2] \in fs[e[1]]}

SourceTrees ==
    {fs \in [Datasets -> SUBSET AllNames] :
        /\ \A d \in Datasets : fs[d] \subseteq NamesOf(d)
        /\ Cardinality(FilesOf(fs)) <= MaxFiles}

OneTree == [d \in Datasets |-> IF d = "orders" THEN {Part0} ELSE {}]

ArgChoices == SeqsUpTo(Datasets, 2)

\* schemas.json as it may be found: absent, not JSON, or one of two documents
SchemaChoices ==
    { [file |-> "absent", doc |-> EmptyDict],
      [file |-> "malformed", doc |-> EmptyDict],
      [file |-> "ok", doc |-> [d \in Datasets |-> GoodCols]],
      [file |-> "ok", doc |-> [d \in {"orders"} |-> GoodCols]] }

PartPaths(fs) ==
    {[dir |-> <<SrcRoot, e[1]>>, file |-> e[2]] : e \in {f \in FilesOf(fs) : MatchesPart(f[2])}}

InitProgram ==
    /\ pc = "main"
    /\ ds_names = <<>>
    /\ dsIdx = 0
    /\ schema = EmptyDict
    /\ col_name = <<>>
    /\ csv_files = <<>>
    /\ fileIdx = 0
    /\ df = NoFrame
    /\ raised = NoExc
    /\ log = EmptyBag
    /\ rootLog = EmptyBag
    /\ rootHandler = FALSE
    /\ console = EmptyBag
    /\ out = NoFiles
    /\ dirs = {LogDir}
    /\ run = 1
    /\ prevOut = NoFiles

\* Many source trees, few schema documents.
InitTrees ==
    /\ env = [src |-> TRUE, tgt |-> TRUE]
    /\ argv \in ArgChoices
    /\ srcFS \in SourceTrees
    /\ \E sc \in SchemaChoices : schemaFile = sc.file /\ schemas = sc.doc
    /\ unparsable \in {{}} \cup {{p} : p \in PartPaths(srcFS)}

\* One source tree, many schema documents.
InitSchemas ==
    /\ env = [src |-> TRUE, tgt |-> TRUE]
    /\ argv \in {<<>>, <<"orders">>}
    /\ srcFS = OneTree
    /\ schemaFile = "ok"
    /\ schemas \in {[d \in {"orders"} |-> cols] : cols \in SeqsUpTo(Descriptors, MaxCols)}
    /\ unparsable \in {{}} \cup {{p} : p \in PartPaths(srcFS)}

\* A missing environment variable.
InitNoEnv ==
    /\ env \in {[src |-> FALSE, tgt |-> TRUE], [src |-> TRUE, tgt |-> FALSE]}
    /\ argv \in {<<>>, <<"orders">>}
    /\ srcFS = OneTree
    /\ schemaFile = "ok"
    /\ schemas = [d \in Datasets |-> GoodCols]
    /\ unparsable = {}

Init == (InitTrees \/ InitSchemas \/ InitNoEnv) /\ InitProgram

\* ------------------------------------------------- raising and returning
\* An exception leaves the function that raised it: `where` is the handler
\* that catches it next.
Raise(type, at, where, newlog) ==
    /\ raised' = [type |-> type, at |-> at]
    /\ pc' = where
    /\ log' = newlog

\* convert_file returned: main's for loop takes the next dataset or ends.
ReturnToMain ==
    /\ schema' = EmptyDict
    /\ col_name' = <<>>
    /\ csv_files' = <<>>
    /\ fileIdx' = 0
    /\ df' = NoFrame
    /\ ds_names' = ds_names
    /\ IF dsIdx < Len(ds_names)
       THEN dsIdx' = dsIdx + 1 /\ pc' = "read_schema"
       ELSE dsIdx' = dsIdx /\ pc' = "done"

\* ------------------------------------------------------------------- main
Main ==
    /\ pc = "main"
    /\ UNCHANGED <<inputs, schema, col_name, csv_files, fileIdx, df, out, dirs, run, prevOut>>
    /\ IF ~(env.src /\ env.tgt)
       THEN /\ Raise("NameError", "main", "aborted",
                     LogAdd(log, L("CRITICAL", "missing_env", "", <<>>)))
            /\ UNCHANGED <<ds_names, dsIdx>>
       ELSE IF argv = <<>>
       THEN \E ds_names_dir \in GlobAll :
              IF Len(ds_names_dir) = 0
              THEN /\ Raise("FileNotFoundError", "main", "main_except",
                            LogAdd(log, L("WARNING", "no_ds_name", "", <<>>)))
                   /\ UNCHANGED <<ds_names, dsIdx>>
              ELSE /\ ds_names' = DirNames(ds_names_dir)
                   /\ dsIdx' = 1
                   /\ pc' = "read_schema"
                   /\ log' = LogAdd(log, L("WARNING", "no_ds_name", "", <<>>))
                   /\ raised' = raised
       ELSE /\ ds_names' = argv
            /\ dsIdx' = 1
            /\ pc' = "read_schema"
            /\ log' = LogAdd(log, L("INFO", "run_with_args", "", <<>>))
            /\ raised' = raised
    /\ LoggerStep

\* ------------------------------------------------------------ read_schema
\* read_schema that takes a missing document for an empty one.
ReadSchemaAbsentAsEmpty ==
    /\ pc = "read_schema"
    /\ UNCHANGED <<inputs, ds_names, dsIdx, col_name, csv_files, fileIdx, df, out, dirs, run, prevOut>>
    /\ IF schemaFile = "malformed"
       THEN /\ Raise("JSONDecodeError", "read_schema", "convert_except",
                     LogAdd(log, L("ERROR", "schema_unparsable", "", <<>>)))
            /\ schema' = schema
       ELSE /\ schema' = schemas
            /\ log' = LogAdd(log, L("INFO", "schema_loaded", "", <<>>))
            /\ pc' = "get_column_names"
            /\ raised' = raised
    /\ LoggerStep

ReadSchema ==
    /\ pc = "read_schema"
    /\ UNCHANGED <<inputs, ds_names, dsIdx, col_name, csv_files, fileIdx, df, out, dirs, run, prevOut>>
    /\ IF schemaFile = "absent"
       THEN /\ Raise("FileNotFoundError", "read_schema", "convert_except",
                     LogAdd(log, L("ERROR", "schema_not_found", "", <<>>)))
            /\ schema' = schema
       ELSE IF schemaFile = "malformed"
       THEN /\ Raise("JSONDecodeError", "read_schema", "convert_except",
                     LogAdd(log, L("ERROR", "schema_unparsable", "", <<>>)))
            /\ schema' = schema
       ELSE /\ schema' = schemas
            /\ log' = LogAdd(log, L("INFO", "schema_loaded", "", <<>>))
            /\ pc' = "get_column_names"
            /\ raised' = raised
    /\ LoggerStep

\* ------------------------------------------------------- get_column_names
\* A sort that is not stable: an entry goes before the entries with an equal key.
InsertBeforeTies(sorted, col) ==
    LET k == Cardinality({i \in 1..Len(sorted) :
                             sorted[i].column_position < col.column_position})
    IN  SubSeq(sorted, 1, k) \o <<col>> \o SubSeq(sorted, k + 1, Len(sorted))

\* list.sort is stable: an entry goes after the entries whose key is not larger
Insert(sorted, col) ==
    LET k == Cardinality({i \in 1..Len(sorted) :
                             sorted[i].column_position <= col.column_position})
    IN  SubSeq(sorted, 1, k) \o <<col>> \o SubSeq(sorted, k + 1, Len(sorted))

RECURSIVE SortedSchema(_)
SortedSchema(cols) ==
    IF cols = <<>> THEN <<>>
    ELSE Insert(SortedSchema(SubSeq(cols, 1, Len(cols) - 1)), cols[Len(cols)])

\* the lookups of lines 210-211 that raise KeyError
ResolveRaises(sch, table) ==
    \/ table \notin DOMAIN sch
    \/ \E i \in 1..Len(sch[table]) : "column_position" \notin DOMAIN sch[table][i]
    \/ \E i \in 1..Len(sch[table]) : "column_name" \notin DOMAIN sch[table][i]

ColumnNames(sch, table) ==
    LET sorted_schema == SortedSchema(sch[table])
    IN  [i \in 1..Len(sorted_schema) |-> sorted_schema[i].column_name]

GetColumnNames ==
    /\ pc = "get_column_names"
    /\ UNCHANGED <<inputs, ds_names, dsIdx, schema, csv_files, fileIdx, df, out, dirs, run, prevOut>>
    /\ IF ResolveRaises(schema, CurDs)
       THEN /\ Raise("KeyError", "get_column_names", "convert_except",
                     LogAdd(log, L("ERROR", "malformed_schema", CurDs, <<>>)))
            /\ col_name' = col_name
       ELSE /\ col_name' = ColumnNames(schema, CurDs)
            /\ log' = LogAdd(log, L("INFO", "columns_retrieved", CurDs, <<>>))
            /\ pc' = "process_files"
            /\ raised' = raised
    /\ LoggerStep

\* ---------------------------------------------------------- process_files
\* process_files without the emptiness test: an empty glob yields nothing.
ProcessFilesNoCheck ==
    /\ pc = "process_files"
    /\ UNCHANGED <<inputs, out, dirs, run, prevOut, raised>>
    /\ \E files \in Orderings(GlobDataset(CurDs)) :
         LET searched == LogAdd(log, L("INFO", "search_dir", CurDs, <<>>))
         IN  IF Len(files) = 0
             THEN /\ log' = searched
                  /\ ReturnToMain
             ELSE /\ csv_files' = files
                  /\ fileIdx' = 1
                  /\ log' = LogAdd(searched, L("INFO", "file_found", CurDs, files[1].file))
                  /\ pc' = "read_csv"
                  /\ UNCHANGED <<ds_names, dsIdx, schema, col_name, df>>
    /\ LoggerStep

\* The generator up to its first yield: glob, the emptiness test, the first file.
ProcessFiles ==
    /\ pc = "process_files"
    /\ UNCHANGED <<inputs, ds_names, dsIdx, schema, col_name, df, out, dirs, run, prevOut>>
    /\ \E files \in Orderings(GlobDataset(CurDs)) :
         LET searched == LogAdd(log, L("INFO", "search_dir", CurDs, <<>>))
         IN  IF Len(files) = 0
             THEN /\ Raise("ValueError", "process_files", "convert_except",
                           LogAdd(searched, L("ERROR", "no_file_found", CurDs, <<>>)))
                  /\ UNCHANGED <<csv_files, fileIdx>>
             ELSE /\ csv_files' = files
                  /\ fileIdx' = 1
                  /\ log' = LogAdd(searched, L("INFO", "file_found", CurDs, files[1].file))
                  /\ pc' = "read_csv"
                  /\ raised' = raised
    /\ LoggerStep

\* --------------------------------------------------------------- read_csv
\* pd.read_csv validates `names` (no duplicates) before it opens the file, so
\* duplicate column names raise ValueError whatever the file holds.
HasDuplicates(names) == \E i, j \in 1..Len(names) : i # j /\ names[i] = names[j]

ReadCsv ==
    /\ pc = "read_csv"
    /\ UNCHANGED <<inputs, ds_names, dsIdx, schema, col_name, csv_files, fileIdx, out, dirs, run, prevOut>>
    /\ IF HasDuplicates(col_name)
       THEN /\ Raise("ValueError", "read_csv", "convert_except",
                     LogAdd(log, L("CRITICAL", "csv_unhandled", CurDs, CurFile.file)))
            /\ df' = df
       ELSE IF CurFile \in unparsable
       THEN /\ Raise("ParserError", "read_csv", "convert_except",
                     LogAdd(log, L("ERROR", "csv_parse_error", CurDs, CurFile.file)))
            /\ df' = df
       ELSE /\ df' = [src |-> CurFile, cols |-> col_name]
            /\ log' = LogAdd(log, L("INFO", "csv_read", CurDs, CurFile.file))
            /\ pc' = "to_json"
            /\ raised' = raised
    /\ LoggerStep

\* ---------------------------------------------------------------- to_json
\* line 269: the directory that is created
JsonDir(ds) == <<TgtRoot, ds>>

\* line 273: the path df.to_json is given, a bare file name, which the
\* operating system resolves against the working directory
WritePath(ds, csv_file_path) == [dir |-> <<Cwd>>, file |-> JsonFileName(csv_file_path)]

WriteFile(files, path, content) ==
    [p \in (DOMAIN files) \cup {path} |-> IF p = path THEN content ELSE files[p]]

\* to_json's only return statement is `return True`
ToJsonReturns == TRUE

\* A fault is an exception of os.makedirs or df.to_json: an IOError (lines
\* 276-278) or any other exception (lines 279-282); both are logged and re-raised.
\* to_json, the branch of convert_file on its result, and the generator's
\* next step (the next file, or the end of the dataset).
ToJson ==
    /\ pc = "to_json"
    /\ UNCHANGED <<inputs, run, prevOut>>
    /\ \E fault \in {"none", "makedirs", "write", "other"} :
         IF fault = "makedirs"
         THEN /\ Raise("IOError", "to_json", "convert_except",
                       LogAdd(log, L("ERROR", "json_io_error", CurDs, CurFile.file)))
              /\ UNCHANGED <<locals, out, dirs>>
         ELSE IF fault = "other"
         THEN /\ dirs' = dirs \cup {JsonDir(CurDs)}
              /\ Raise("Exception", "to_json", "convert_except",
                       LogAdd(LogAdd(log, L("INFO", "json_dir_created", CurDs, CurFile.file)),
                              L("CRITICAL", "json_unhandled", CurDs, CurFile.file)))
              /\ UNCHANGED <<locals, out>>
         ELSE IF fault = "write"
         THEN /\ dirs' = dirs \cup {JsonDir(CurDs)}
              /\ Raise("IOError", "to_json", "convert_except",
                       LogAdd(LogAdd(log, L("INFO", "json_dir_created", CurDs, CurFile.file)),
                              L("ERROR", "json_io_error", CurDs, CurFile.file)))
              /\ UNCHANGED <<locals, out>>
         ELSE LET written == LogAdd(LogAdd(log, L("INFO", "json_dir_created", CurDs, CurFile.file)),
                                    L("INFO", "json_written", CurDs, CurFile.file))
                  result == IF ToJsonReturns
                            THEN L("INFO", "processed", CurDs, CurFile.file)
                            ELSE L("ERROR", "processing_error", CurDs, CurFile.file)
                  handled == LogAdd(written, result)
              IN  /\ dirs' = dirs \cup {JsonDir(CurDs)}
                  /\ out' = WriteFile(out, WritePath(CurDs, CurFile), df)
                  /\ raised' = raised
                  /\ IF fileIdx < Len(csv_files)
                     THEN /\ fileIdx' = fileIdx + 1
                          /\ log' = LogAdd(handled, L("INFO", "file_found", CurDs,
                                                      csv_files[fileIdx + 1].file))
                          /\ pc' = "read_csv"
                          /\ UNCHANGED <<ds_names, dsIdx, schema, col_name, csv_files, df>>
                     ELSE /\ log' = handled
                          /\ ReturnToMain
    /\ LoggerStep

\* ------------------------------------------------------ exception handlers
\* convert_file that logs the exception and goes on with the next dataset.
ConvertExceptSwallow ==
    /\ pc = "convert_except"
    /\ rootLog' = LogAdd(rootLog, L("CRITICAL", "convert_unhandled", "", <<>>))
    /\ rootHandler' = TRUE
    /\ console' = console (+) Lines("root", SetToBag({L("CRITICAL", "convert_unhandled", "", <<>>)}))
    /\ ReturnToMain
    /\ UNCHANGED <<inputs, raised, log, out, dirs, run, prevOut>>

\* convert_file, lines 126-128: log and re-raise.  Line 127 calls
\* logging.critical, the module-level function: the record goes to the root
\* logger and not to the decorator's logger, and logging.basicConfig gives the
\* root logger a stream handler first, which prints the record.
ConvertExcept ==
    /\ pc = "convert_except"
    /\ rootLog' = LogAdd(rootLog, L("CRITICAL", "convert_unhandled", "", <<>>))
    /\ rootHandler' = TRUE
    /\ console' = console (+) Lines("root", SetToBag({L("CRITICAL", "convert_unhandled", "", <<>>)}))
    /\ pc' = "main_except"
    /\ UNCHANGED <<inputs, locals, raised, log, out, dirs, run, prevOut>>

\* main, lines 95-97: log and re-raise, which ends the process
MainExcept ==
    /\ pc = "main_except"
    /\ log' = LogAdd(log, L("CRITICAL", "main_unhandled", "", <<>>))
    /\ pc' = "aborted"
    /\ UNCHANGED <<inputs, locals, raised, out, dirs, run, prevOut>>
    /\ LoggerStep

\* --------------------------------------------------------- the next run
\* The program is started again on the same source root after a run that
\* completed: the files it wrote are still there.
Rerun ==
    /\ pc = "done"
    /\ run < MaxRuns
    /\ run' = run + 1
    /\ prevOut' = out
    /\ pc' = "main"
    /\ ds_names' = <<>>
    /\ dsIdx' = 0
    /\ schema' = EmptyDict
    /\ col_name' = <<>>
    /\ csv_files' = <<>>
    /\ fileIdx' = 0
    /\ df' = NoFrame
    /\ raised' = NoExc
    /\ log' = EmptyBag
    /\ rootLog' = EmptyBag
    /\ rootHandler' = FALSE
    /\ console' = EmptyBag
    /\ dirs' = dirs \cup {LogDir}
    /\ UNCHANGED <<inputs, out>>

Next ==
    \/ Main
    \/ ReadSchema
    \/ GetColumnNames
    \/ ProcessFiles
    \/ ReadCsv
    \/ ToJson
    \/ ConvertExcept
    \/ MainExcept
    \/ Rerun

Spec == Init /\ [][Next]_vars

\* ================================================================ claims
SchemaReads == Count(log, {"schema_loaded", "schema_not_found", "schema_unparsable"})
Resolutions == Count(log, {"columns_retrieved", "malformed_schema"})
Parses == Count(log, {"csv_read"})
Writes == Count(log, {"json_written"})

\* the name starts with the five characters p a r t -
StartsWithPart(n) ==
    Len(n) >= 5 /\ n[1] = "p" /\ n[2] = "a" /\ n[3] = "r" /\ n[4] = "t" /\ n[5] = "-"
HasPartition(d) == d \in DOMAIN srcFS /\ \E n \in srcFS[d] : StartsWithPart(n)

\* C1: every file the write step has written for partition p of dataset d is at
\* <target root>/d/<base name of p without extension>.json, never elsewhere.
C1_WritesUnderTargetDataset ==
    \A p \in DOMAIN out :
        /\ p.dir = <<TgtRoot, out[p].src.dir[2]>>
        /\ p.file = SplitextRoot(out[p].src.file) \o JsonExt

\* C2: without a dataset list, discovery yields every dataset at most once, and
\* a completed run has parsed and written each partition exactly once.
C2_DiscoveryDeduplicates ==
    (argv = <<>> /\ pc \notin {"main", "main_except", "aborted"}) =>
        /\ \A i, j \in 1..Len(ds_names) : i # j => ds_names[i] # ds_names[j]
        /\ pc = "done" => Parses = Cardinality(PartPaths(srcFS)) /\ Writes = Parses

\* C3: the schema document is read exactly once in a run, before the
\* first column resolution, whatever the number of datasets.
C3_SchemaReadOncePerRun ==
    /\ SchemaReads <= 1
    /\ Resolutions > 0 => SchemaReads = 1

\* C4: a write that fails with an IO error is reported as success = false and is
\* not raised: an error is logged for the partition and the run goes on.
C4_WriteFailureIsSoft ==
    Count(log, {"json_io_error"}) > 0 =>
        /\ raised = NoExc
        /\ pc \notin {"convert_except", "main_except", "aborted"}
        /\ Count(log, {"processing_error"}) = Count(log, {"json_io_error"})

ResolveOrParseError(e) == e.at \in {"get_column_names", "read_csv"}

\* C5: once column resolution or parsing has raised, the exception goes out of
\* main unchanged and nothing more is resolved, parsed or written; the files
\* written before stay as they are.
C5_AbortOnResolveOrParseError ==
    [][ResolveOrParseError(raised) =>
          /\ raised' = raised
          /\ pc' \in {"main_except", "aborted"}
          /\ (pc = "main_except" => pc' = "aborted")
          /\ out' = out
          /\ dirs' = dirs
          /\ Count(log', {"schema_loaded", "columns_retrieved", "file_found", "csv_read",
                          "json_written"})
               = Count(log, {"schema_loaded", "columns_retrieved", "file_found", "csv_read",
                             "json_written"})]_vars

C5_Witness ==
    /\ pc = "aborted"
    /\ raised.at = "read_csv"
    /\ out # prevOut
    /\ dsIdx < Len(ds_names)

Completed == IF pc = "done" THEN 1..Len(ds_names) ELSE 1..(dsIdx - 1)

\* C6: partition location fails with the no-partitions error exactly when no
\* file of the dataset's directory starts with part-; a dataset that got past it
\* has partitions, and of a dataset for which it failed nothing is parsed or written.
C6_NoPartitionsIffNoneMatch ==
    /\ raised.at = "process_files" =>
          /\ raised.type = "ValueError"
          /\ ~HasPartition(CurDs)
          /\ \A r \in BagToSet(log) : r.msg \in {"csv_read", "json_written"} => r.ds # CurDs
          /\ \A p \in DOMAIN out : out[p].src.dir # <<SrcRoot, CurDs>>
    /\ pc \in {"read_csv", "to_json"} =>
          /\ HasPartition(CurDs)
          /\ csv_files # <<>>
          /\ {csv_files[i].file : i \in 1..Len(csv_files)} = {n \in srcFS[CurDs] : StartsWithPart(n)}
    /\ \A i \in Completed : HasPartition(ds_names[i])

C6_Witness ==
    /\ pc = "aborted"
    /\ raised.at = "process_files"
    /\ srcFS[CurDs] # {}
    /\ dsIdx > 1

IsStableOrder(names, cols) ==
    /\ Len(names) = Len(cols)
    /\ \E perm \in Orderings(1..Len(cols)) :
          /\ \A i \in 1..Len(cols) : names[i] = cols[perm[i]].column_name
          /\ \A i, j \in 1..Len(cols) :
                i < j => \/ cols[perm[i]].column_position < cols[perm[j]].column_position
                         \/ /\ cols[perm[i]].column_position = cols[perm[j]].column_position
                            /\ perm[i] < perm[j]

\* C7: the resolved column names are the names of the dataset's descriptors,
\* as many as there are descriptors, by non-decreasing position, descriptors of
\* equal position in their order in the schema.
C7_ColumnsInStablePositionOrder ==
    pc \in {"process_files", "read_csv", "to_json"} => IsStableOrder(col_name, schemas[CurDs])

C7_Witness ==
    /\ pc = "process_files"
    /\ Len(col_name) = 2
    /\ schemas[CurDs][1].column_position = schemas[CurDs][2].column_position
    /\ schemas[CurDs][1].column_name # schemas[CurDs][2].column_name

SchemaNotFound == [type |-> "FileNotFoundError", at |-> "read_schema"]
NoDatasetsFound == [type |-> "FileNotFoundError", at |-> "main"]

\* C8 as claimed: without schemas.json the run ends with the schema-not-found
\* error and no file written, whatever the source root holds.
C8_AbsentSchemaAborts ==
    (schemaFile = "absent" /\ env.src /\ env.tgt /\ pc \in {"done", "aborted"}) =>
        /\ pc = "aborted"
        /\ raised = SchemaNotFound
        /\ out = NoFiles

\* C8 amended: without schemas.json no file is ever written and the run never
\* completes; it ends with the schema-not-found error when a dataset is
\* enumerated (a dataset list is given or the scan finds a part file), and with
\* the no-files-found error of the scan when no list is given and the scan
\* finds nothing.
C8_AbsentSchemaAbortsAfterEnumeration ==
    (schemaFile = "absent" /\ env.src /\ env.tgt) =>
        /\ out = NoFiles
        /\ Writes = 0
        /\ pc # "done"
        /\ pc = "aborted" =>
              raised = (IF argv = <<>> /\ \A d \in DOMAIN srcFS : ~HasPartition(d)
                        THEN NoDatasetsFound ELSE SchemaNotFound)

C8_Witness ==
    /\ schemaFile = "absent"
    /\ pc = "aborted"
    /\ raised = SchemaNotFound
    /\ Cardinality(PartPaths(srcFS)) = MaxFiles

\* C9: a second run on the same source root and schema leaves the same output
\* files with the same contents as the first, whatever the enumeration order.
C9_RerunLeavesSameOutput ==
    (run > 1 /\ pc = "done") => out = prevOut

Enumerated == UNION {GlobDataset(ds_names[i]) : i \in 1..Len(ds_names)}

\* C10: after a run that completes there is exactly one output file per input
\* partition, none overwritten by the output of another partition.
C10_OneOutputPerPartition ==
    (run = 1 /\ pc = "done") =>
        /\ Cardinality(DOMAIN out) = Cardinality(Enumerated)
        /\ \A q \in Enumerated : \E p \in DOMAIN out : out[p].src = q

====
